---------------------------- MODULE Spec2Model ----------------------------
(***************************************************************************)
(* A model of Riv (src/riv.js): the serializer, the recursive-descent      *)
(* deserializer and the utilities built on them (clone, merge, validate).  *)
(*                                                                         *)
(* Text is a sequence of characters, each character a one-character        *)
(* string.  Cursor positions are 0-based, as in the source.                *)
(*                                                                         *)
(* Values are records tagged by k:                                         *)
(*   nil, undef, fn, bool(b), num(m,e) = m * 10^e, nan, inf, ninf, big(n), *)
(*   str(s), date(t), regex(src,flags), error(msg), buf(bytes),            *)
(*   set(items), map(ents = <<key,value>> pairs), seq(items),              *)
(*   obj(ents = [key, val] in own-property order),                         *)
(*   ref(id): the object heap[id], an object that has an identity and may  *)
(*   therefore be shared or lie on a cycle.                                *)
(* Property keys are never canonical array indices, so own-property order  *)
(* is insertion order.                                                     *)
(***************************************************************************)
EXTENDS Integers, Sequences, FiniteSets, TLC

VARIABLES
  CONFIG,   \* src/riv.js:5 the process-wide configuration
  heap,     \* the caller's objects that have an identity: id -> seq/obj/set/map
  call,     \* the API call being made: [op, ...arguments]
  pc,       \* "ready" before the call, "serialized", "done" after it;
            \* "value", "turn", "return" within a deserialize taken step by step
  encoded,  \* what serialize returned or raised: [err, text]
  outcome,  \* what the call returned or raised: [err, context, val, pos]
  stack     \* the activations of parseArray and parseObject, innermost last

vars == <<CONFIG, heap, call, pc, encoded, outcome, stack>>

---------------------------------------------------------------------------
(* Characters and text *)

NL == "\n"
CR == "\r"
TAB == "\t"
FF == "\f"
BS == "\\b"     \* stands for the backspace character U+0008
DQ == "\""
BSL == "\\"
SP == " "

Digits == <<"0", "1", "2", "3", "4", "5", "6", "7", "8", "9">>

IsDigit(c) == \E i \in 1..10 : Digits[i] = c

DigitVal(c) == (CHOOSE i \in 1..10 : Digits[i] = c) - 1

\* /[ \t]/
IsBlank(c) == c \in {SP, TAB}

\* /\s/
IsSpace(c) == c \in {SP, TAB, NL, CR, FF}

Max(a, b) == IF a > b THEN a ELSE b

Min(a, b) == IF a < b THEN a ELSE b

\* str[pos]; "" stands for undefined (pos beyond the end)
At(str, pos) == IF pos >= 0 /\ pos < Len(str) THEN str[pos + 1] ELSE ""

\* str.slice(from, to) for 0 <= from
Slice(str, from, to) ==
  LET a == Min(Max(from, 0), Len(str))
      b == Min(Max(to, 0), Len(str))
  IN IF a >= b THEN <<>> ELSE SubSeq(str, a + 1, b)

\* str.startsWith(lit, pos)
StartsWith(str, lit, pos) == Slice(str, pos, pos + Len(lit)) = lit

\* str.includes(c)
Includes(str, c) == \E i \in 1..Len(str) : str[i] = c

RECURSIVE Concat(_)
Concat(texts) ==
  IF texts = <<>> THEN <<>> ELSE Head(texts) \o Concat(Tail(texts))

\* texts.join(sep)
RECURSIVE Join(_, _)
Join(texts, sep) ==
  IF texts = <<>> THEN <<>>
  ELSE IF Len(texts) = 1 THEN texts[1]
  ELSE texts[1] \o sep \o Join(Tail(texts), sep)

\* str.split(sep) for a one-character separator
RECURSIVE Split(_, _)
Split(str, sep) ==
  IF ~Includes(str, sep) THEN <<str>>
  ELSE LET i == CHOOSE j \in 1..Len(str) :
                  str[j] = sep /\ \A h \in 1..(j - 1) : str[h] # sep
       IN <<SubSeq(str, 1, i - 1)>> \o Split(SubSeq(str, i + 1, Len(str)), sep)

\* ' '.repeat(n)
Spaces(n) == [i \in 1..n |-> SP]

\* the decimal digits of a natural number
RECURSIVE NatToText(_)
NatToText(n) ==
  IF n < 10 THEN <<Digits[n + 1]>>
  ELSE NatToText(n \div 10) \o <<Digits[(n % 10) + 1]>>

\* String(n) for an integer
IntToText(n) == IF n < 0 THEN <<"-">> \o NatToText(-n) ELSE NatToText(n)

\* the natural number a run of digits denotes ("" denotes 0)
RECURSIVE DigitsToNat(_)
DigitsToNat(ds) ==
  IF ds = <<>> THEN 0
  ELSE 10 * DigitsToNat(SubSeq(ds, 1, Len(ds) - 1)) + DigitVal(ds[Len(ds)])

AllDigits(ds) == \A i \in 1..Len(ds) : IsDigit(ds[i])

\* the cursor after the loop  while (pos < len && test(str[pos])) pos++
ScanWhile(str, pos, Test(_)) ==
  IF pos >= Len(str) THEN pos
  ELSE CHOOSE p \in pos..Len(str) :
         /\ \A q \in pos..(p - 1) : Test(str[q + 1])
         /\ (p = Len(str) \/ ~Test(str[p + 1]))

---------------------------------------------------------------------------
(* Numbers.  A finite Number is m * 10^e with m not divisible by 10 (0 is  *)
(* m = 0, e = 0); the decimal texts the model meets denote such numbers    *)
(* exactly.                                                                *)

RECURSIVE Normalize(_, _)
Normalize(m, e) ==
  IF m = 0 THEN [k |-> "num", m |-> 0, e |-> 0]
  ELSE IF m % 10 = 0 THEN Normalize(m \div 10, e + 1)
  ELSE [k |-> "num", m |-> m, e |-> e]

Num(n) == Normalize(n, 0)

\* String(value) for a finite number: Number::toString, radix 10
NumberToString(v) ==
  LET neg == v.m < 0
      ds == NatToText(IF neg THEN -v.m ELSE v.m)
      kk == Len(ds)
      n == kk + v.e
      sign == IF neg THEN <<"-">> ELSE <<>>
      ex == n - 1
      exText == <<"e">> \o (IF ex < 0 THEN <<"-">> ELSE <<"+">>)
                 \o NatToText(IF ex < 0 THEN -ex ELSE ex)
  IN IF v.m = 0 THEN <<"0">>
     ELSE IF kk <= n /\ n <= 21 THEN sign \o ds \o [i \in 1..(n - kk) |-> "0"]
     ELSE IF 0 < n /\ n <= 21
       THEN sign \o SubSeq(ds, 1, n) \o <<".">> \o SubSeq(ds, n + 1, kk)
     ELSE IF -6 < n /\ n <= 0
       THEN sign \o <<"0", ".">> \o [i \in 1..(-n) |-> "0"] \o ds
     ELSE IF kk = 1 THEN sign \o ds \o exText
     ELSE sign \o <<ds[1], ".">> \o SubSeq(ds, 2, kk) \o exText

\* Number(numStr) for the texts parseNumber hands it:
\* -?[0-9.]*([eE][+-]?[0-9]*)? ; [k |-> "nan"] when the text is no number
StringToNumber(numStr) ==
  LET neg == At(numStr, 0) = "-"
      body == IF neg THEN Tail(numStr) ELSE numStr
      ePos == ScanWhile(body, 0, LAMBDA c : c \notin {"e", "E"})
      mant == Slice(body, 0, ePos)
      hasExp == ePos < Len(body)
      expAll == Slice(body, ePos + 1, Len(body))
      expNeg == At(expAll, 0) = "-"
      expDs == IF At(expAll, 0) \in {"+", "-"} THEN Tail(expAll) ELSE expAll
      dot == ScanWhile(mant, 0, LAMBDA c : c # ".")
      ip == Slice(mant, 0, dot)
      fp == Slice(mant, dot + 1, Len(mant))
      mantOk == /\ AllDigits(ip) /\ AllDigits(fp)
                /\ Len(ip) + Len(fp) > 0
      expOk == ~hasExp \/ (expDs # <<>> /\ AllDigits(expDs))
      ex == IF hasExp THEN (IF expNeg THEN -DigitsToNat(expDs)
                            ELSE DigitsToNat(expDs))
            ELSE 0
      mag == DigitsToNat(ip \o fp)
  IN IF mantOk /\ expOk
       THEN Normalize(IF neg THEN -mag ELSE mag, ex - Len(fp))
       ELSE [k |-> "nan"]

\* parseInt(text): optional sign and the leading digits; "nan" without digits
ParseInt(text) ==
  LET start == ScanWhile(text, 0, IsSpace)
      neg == At(text, start) = "-"
      from == IF At(text, start) \in {"+", "-"} THEN start + 1 ELSE start
      to == ScanWhile(text, from, IsDigit)
  IN IF to = from THEN [k |-> "nan"]
     ELSE [k |-> "int",
           n |-> IF neg THEN -DigitsToNat(Slice(text, from, to))
                 ELSE DigitsToNat(Slice(text, from, to))]

\* BigInt(text) for the texts parseSpecial hands it ([0-9-]*): "" is 0n;
\* anything but an optional minus and digits is a SyntaxError
StringToBigInt(text) ==
  LET neg == At(text, 0) = "-"
      ds == IF neg THEN Tail(text) ELSE text
  IN IF text = <<>> THEN [k |-> "big", n |-> 0]
     ELSE IF ds # <<>> /\ AllDigits(ds)
       THEN [k |-> "big", n |-> IF neg THEN -DigitsToNat(ds) ELSE DigitsToNat(ds)]
     ELSE [k |-> "throw"]

---------------------------------------------------------------------------
(* Escaping *)

\* src/riv.js:13 the characters ESCAPE_MAP has an entry for
EscapeKeys == {DQ, BSL, NL, CR, TAB, BS, FF}

ESCAPE_MAP(c) ==
  CASE c = DQ -> <<BSL, DQ>>
    [] c = BSL -> <<BSL, BSL>>
    [] c = NL -> <<BSL, "n">>
    [] c = CR -> <<BSL, "r">>
    [] c = TAB -> <<BSL, "t">>
    [] c = BS -> <<BSL, "b">>
    [] c = FF -> <<BSL, "f">>

\* src/riv.js:24 the character class /["\\n\r\t\b\f]/ : in a regular
\* expression literal \\ is the backslash and the n after it is the letter n
EscapeClass == {DQ, BSL, "n", CR, TAB, BS, FF}

\* char => ESCAPE_MAP[char] || char, applied to the characters of the class
EscapeChar(c) ==
  IF c \in EscapeClass
    THEN (IF c \in EscapeKeys THEN ESCAPE_MAP(c) ELSE <<c>>)
    ELSE <<c>>

escape(str) == Concat([i \in 1..Len(str) |-> EscapeChar(str[i])])

\* src/riv.js:18 the second characters of the pairs UNESCAPE_MAP maps
UnescapeClass == {DQ, BSL, "n", "r", "t", "b", "f"}

UNESCAPE_MAP(c) ==
  CASE c = DQ -> DQ
    [] c = BSL -> BSL
    [] c = "n" -> NL
    [] c = "r" -> CR
    [] c = "t" -> TAB
    [] c = "b" -> BS
    [] c = "f" -> FF

\* str.replace(/\\["\\nrtbf]/g, ...): left to right, matches do not overlap
RECURSIVE unescape(_)
unescape(str) ==
  IF str = <<>> THEN <<>>
  ELSE IF str[1] = BSL /\ Len(str) >= 2 /\ str[2] \in UnescapeClass
    THEN <<UNESCAPE_MAP(str[2])>> \o unescape(SubSeq(str, 3, Len(str)))
  ELSE <<str[1]>> \o unescape(Tail(str))

---------------------------------------------------------------------------
(* Dates, patterns, buffers: what the runtime's conversions do.  A Date is *)
(* its time value t in milliseconds; the model's dates lie within          *)
(* 1970-01-01, where toISOString is a matter of the time of day.           *)

Pad(n, width) ==
  LET ds == NatToText(n)
  IN [i \in 1..(width - Len(ds)) |-> "0"] \o ds

IsoPrefix == <<"1", "9", "7", "0", "-", "0", "1", "-", "0", "1", "T">>

\* value.toISOString() for 0 <= t < DayMs
DateToISOString(t) ==
  IsoPrefix \o Pad(t \div 3600000, 2) \o <<":">> \o Pad((t \div 60000) % 60, 2)
    \o <<":">> \o Pad((t \div 1000) % 60, 2) \o <<".">> \o Pad(t % 1000, 3)
    \o <<"Z">>

\* new Date(text).getTime() for the ISO form of a time of 1970-01-01; any
\* other text is taken to be no date: [k |-> "nan"]
DateParse(text) ==
  LET hh == Slice(text, 11, 13)
      mm == Slice(text, 14, 16)
      ss == Slice(text, 17, 19)
      ms == Slice(text, 20, 23)
      ok == /\ Len(text) = 24
            /\ Slice(text, 0, 11) = IsoPrefix
            /\ text[14] = ":" /\ text[17] = ":" /\ text[20] = "." /\ text[24] = "Z"
            /\ AllDigits(hh \o mm \o ss \o ms)
            /\ DigitsToNat(hh) < 24 /\ DigitsToNat(mm) < 60 /\ DigitsToNat(ss) < 60
  IN IF ok
       THEN [k |-> "int",
             n |-> DigitsToNat(hh) * 3600000 + DigitsToNat(mm) * 60000
                     + DigitsToNat(ss) * 1000 + DigitsToNat(ms)]
       ELSE [k |-> "nan"]

\* value.toString() of a RegExp
RegExpToString(v) == <<"/">> \o v.src \o <<"/">> \o v.flags

\* the index of the last "/" of text, -1 when there is none
LastSlash(text) ==
  IF ~Includes(text, "/") THEN -1
  ELSE (CHOOSE i \in 1..Len(text) :
          text[i] = "/" /\ \A j \in (i + 1)..Len(text) : text[j] # "/") - 1

\* the source property of new RegExp(text): each "/" is written "\/"
RegExpSource(text) ==
  Concat([i \in 1..Len(text) |->
            IF text[i] = "/" THEN <<BSL, "/">> ELSE <<text[i]>>])

\* src/riv.js:202 regexStr.match(/^\/(.*)\/([gimuy]*)$/), then new RegExp
RegExpFromString(regexStr) ==
  LET last == LastSlash(regexStr)
      flags == Slice(regexStr, last + 1, Len(regexStr))
      matches == /\ At(regexStr, 0) = "/"
                 /\ last > 0
                 /\ \A i \in 1..Len(flags) : flags[i] \in {"g", "i", "m", "u", "y"}
                 /\ ~Includes(regexStr, NL) /\ ~Includes(regexStr, CR)
  IN IF matches
       THEN [k |-> "regex", src |-> Slice(regexStr, 1, last), flags |-> flags]
       ELSE [k |-> "regex", src |-> RegExpSource(regexStr), flags |-> <<>>]

\* src/riv.js:82 Array.from(new Uint8Array(value)).join(',')
BufferToString(bytes) == Join([i \in 1..Len(bytes) |-> NatToText(bytes[i])], <<",">>)

\* src/riv.js:214 new Uint8Array(text.split(',').map(n => parseInt(n))):
\* NaN becomes 0, every other number is taken modulo 256
BufferFromString(text) ==
  LET parts == Split(text, ",")
      byte(part) == LET n == ParseInt(part)
                    IN IF n.k = "nan" THEN 0 ELSE n.n % 256
  IN [i \in 1..Len(parts) |-> byte(parts[i])]

---------------------------------------------------------------------------
(* The serializer *)

Nil == [k |-> "nil"]

\* the object a value denotes: a reference denotes the heap's object
Deref(v) == IF v.k = "ref" THEN heap[v.id] ELSE v

\* src/riv.js:31 checkCircular(obj, seen) raises: TRUE when it throws
\* 'Circular reference'.  Only arrays and the own enumerable properties of
\* other objects are walked; a Set, a Map, a Date ... has no such property.
\* An object written inline has an identity no other value shares, so it is
\* never found in seen.
RECURSIVE checkCircularThrows(_, _)
checkCircularThrows(obj, seen) ==
  LET o == Deref(obj)
      now == IF obj.k = "ref" THEN seen \cup {obj.id} ELSE seen
  IN IF obj.k = "ref" /\ obj.id \in seen THEN TRUE
     ELSE IF o.k = "seq"
       THEN \E i \in 1..Len(o.items) : checkCircularThrows(o.items[i], now)
     ELSE IF o.k = "obj"
       THEN \E i \in 1..Len(o.ents) : checkCircularThrows(o.ents[i].val, now)
     ELSE FALSE

\* src/riv.js:45
indent(level) == Spaces(CONFIG.indent * level)

\* the depth guard off by one: level maxDepth already refused
DepthExceededAtLimit(level) == level >= CONFIG.maxDepth

\* src/riv.js:51 the depth guard
DepthExceeded(level) == level > CONFIG.maxDepth

\* src/riv.js:92 the width below which a sequence is written on one line
InlineWidth == 60

Ok(text) == [err |-> "", text |-> text]

Throw(message) == [err |-> message, text |-> <<>>]

\* src/riv.js:110 val.split('\n').map(line => indent(level + 2) + line).join('\n')
Reindent(val, level) ==
  LET lines == Split(val, NL)
  IN Join([i \in 1..Len(lines) |-> indent(level + 2) \o lines[i]], <<NL>>)

\* src/riv.js:101 Object.entries(value).filter(([k, v]) => typeof v !== 'function')
Entries(o) == SelectSeq(o.ents, LAMBDA en : en.val.k # "fn")

\* src/riv.js:50 serialize(value, name, level): [err, text], err = "" when it
\* returns text, else the message of the error it raises.  serializeAll is
\* items.map(v => serialize(v, null, level)): the first error ends the map.
RECURSIVE serialize(_, _, _), serializeAll(_, _)
serializeAll(items, level) ==
  IF items = <<>> THEN [err |-> "", texts |-> <<>>]
  ELSE LET first == serialize(items[1], <<>>, level)
       IN IF first.err # "" THEN [err |-> first.err, texts |-> <<>>]
          ELSE LET rest == serializeAll(Tail(items), level)
               IN IF rest.err # "" THEN rest
                  ELSE [err |-> "", texts |-> <<first.text>> \o rest.texts]

serialize(value, name, level) ==
  LET v == Deref(value)
  IN IF DepthExceeded(level) THEN Throw("Max depth exceeded")
     ELSE CASE v.k \in {"nil", "undef"} -> Ok(<<"#", "n", "i", "l">>)
       [] v.k = "bool" ->
            Ok(IF v.b THEN <<"#", "y", "e", "s">> ELSE <<"#", "n", "o">>)
       [] v.k = "str" -> Ok(<<DQ>> \o escape(v.s) \o <<DQ>>)
       [] v.k = "nan" -> Ok(<<"#", "n", "a", "n">>)
       [] v.k = "inf" -> Ok(<<"#", "i", "n", "f">>)
       [] v.k = "ninf" -> Ok(<<"#", "-", "i", "n", "f">>)
       [] v.k = "num" -> Ok(NumberToString(v))
       [] v.k = "big" -> Ok(<<"#", "b", "i", "g", ":">> \o IntToText(v.n))
       [] v.k = "date" ->
            Ok(<<"#", "d", "a", "t", "e", ":", DQ>>
               \o (IF CONFIG.dateFormat = "timestamp" THEN IntToText(v.t)
                   ELSE DateToISOString(v.t))
               \o <<DQ>>)
       [] v.k = "regex" ->
            Ok(<<"#", "r", "e", "g", "e", "x", ":", DQ>>
               \o escape(RegExpToString(v)) \o <<DQ>>)
       [] v.k = "error" ->
            Ok(<<"#", "e", "r", "r", "o", "r", ":", DQ>> \o escape(v.msg) \o <<DQ>>)
       [] v.k = "set" ->
            LET items == serializeAll(v.items, level + 1)
            IN IF items.err # "" THEN Throw(items.err)
               ELSE Ok(<<"#", "s", "e", "t", ":", "<">>
                       \o Join(items.texts, <<SP>>) \o <<">">>)
       [] v.k = "map" ->
            LET flat == serializeAll(
                          Concat([i \in 1..Len(v.ents) |->
                                    <<v.ents[i][1], v.ents[i][2]>>]),
                          level + 1)
                pair(i) == <<"<">> \o flat.texts[2 * i - 1] \o <<SP>>
                             \o flat.texts[2 * i] \o <<">">>
            IN IF flat.err # "" THEN Throw(flat.err)
               ELSE Ok(<<"#", "m", "a", "p", ":", "<">>
                       \o Join([i \in 1..Len(v.ents) |-> pair(i)], <<SP>>)
                       \o <<">">>)
       [] v.k = "buf" ->
            Ok(<<"#", "b", "u", "f", "f", "e", "r", ":", DQ>>
               \o BufferToString(v.bytes) \o <<DQ>>)
       [] v.k = "fn" -> Ok(<<"#", "n", "i", "l">>)
       [] v.k = "seq" ->
            IF checkCircularThrows(value, {}) THEN Throw("Circular reference")
            ELSE IF v.items = <<>> THEN Ok(<<"<", ">">>)
            ELSE LET items == serializeAll(v.items, level + 1)
                     inline == Join(items.texts, <<SP>>)
                 IN IF items.err # "" THEN Throw(items.err)
                    ELSE IF Len(inline) < InlineWidth /\ ~Includes(inline, NL)
                      THEN Ok(<<"<">> \o inline \o <<">">>)
                    ELSE Ok(<<"<", NL>>
                            \o Join([i \in 1..Len(items.texts) |->
                                       indent(level + 1) \o items.texts[i]], <<NL>>)
                            \o <<NL>> \o indent(level) \o <<">">>)
       [] v.k = "obj" ->
            IF checkCircularThrows(value, {}) THEN Throw("Circular reference")
            ELSE LET entries == Entries(v)
                     vals == serializeAll([i \in 1..Len(entries) |-> entries[i].val],
                                          level + 1)
                     header == <<"@">> \o name
                     prop(i) ==
                       LET val == vals.texts[i]
                       IN IF Includes(val, NL)
                            THEN indent(level + 1) \o <<":">> \o entries[i].key
                                   \o <<SP, "=", ">", NL>> \o Reindent(val, level)
                            ELSE indent(level + 1) \o <<":">> \o entries[i].key
                                   \o <<SP, "=", ">", SP>> \o val
                 IN IF entries = <<>> THEN Ok(header)
                    ELSE IF vals.err # "" THEN Throw(vals.err)
                    ELSE Ok(header \o <<NL>>
                            \o Join([i \in 1..Len(entries) |-> prop(i)], <<NL>>))

---------------------------------------------------------------------------
(* The deserializer.  Every parse function takes the text and the cursor   *)
(* and yields [pos, err, val]: the cursor it leaves, the message of the    *)
(* error it raises ("" when it returns) and the value it returns.          *)

Ret(pos, val) == [pos |-> pos, err |-> "", val |-> val]

Raise(pos, message) == [pos |-> pos, err |-> message, val |-> Nil]

Str(s) == [k |-> "str", s |-> s]

\* src/riv.js:131 skip()
skip(str, pos) == ScanWhile(str, pos, IsBlank)

\* src/riv.js:135 skipLine()
skipLine(str, pos) == ScanWhile(str, pos, IsSpace)

\* the loop  while (pos < len && str[pos] === ' ') pos++
SkipSpaces(str, pos) == ScanWhile(str, pos, LAMBDA c : c = SP)

\* the loop  while (pos < len && str[pos] !== '\n') pos++  and the
\* if (pos < len && str[pos] === '\n') pos++  that follows it
SkipToNextLine(str, pos) ==
  LET eol == ScanWhile(str, pos, LAMBDA c : c # NL)
  IN IF eol < Len(str) THEN eol + 1 ELSE eol

\* src/riv.js:144 the cursor after the loop of parseString
RECURSIVE StringEnd(_, _)
StringEnd(str, pos) ==
  IF pos < Len(str) /\ str[pos + 1] # DQ
    THEN IF str[pos + 1] = BSL /\ pos + 1 < Len(str)
           THEN StringEnd(str, pos + 2)
           ELSE StringEnd(str, pos + 1)
    ELSE pos

\* src/riv.js:139
parseString(str, pos) ==
  IF At(str, pos) # DQ THEN Raise(pos, "Expected \"")
  ELSE LET end == StringEnd(str, pos + 1)
       IN IF end >= Len(str) THEN Raise(end, "Unterminated string")
          ELSE Ret(end + 1, Str(unescape(Slice(str, pos + 1, end))))

\* src/riv.js:159 the cursor after the scanning loops of parseNumber
NumberEnd(str, pos) ==
  LET p2 == ScanWhile(str, IF At(str, pos) = "-" THEN pos + 1 ELSE pos,
                      LAMBDA c : IsDigit(c) \/ c = ".")
  IN IF At(str, p2) \in {"e", "E"}
       THEN ScanWhile(str, IF At(str, p2 + 1) \in {"+", "-"} THEN p2 + 2 ELSE p2 + 1,
                      IsDigit)
       ELSE p2

\* src/riv.js:170 the result of Number(numStr), refused when it is NaN
NumberOf(end, num) ==
  IF num.k = "nan" THEN Raise(end, "Invalid number") ELSE Ret(end, num)

\* src/riv.js:168
NumberAt(str, start, end) == NumberOf(end, StringToNumber(Slice(str, start, end)))

\* src/riv.js:158
parseNumber(str, pos) == NumberAt(str, pos, NumberEnd(str, pos))

\* SameValueZero on the values the parser builds: primitives by value,
\* objects (each one fresh) never
IsPrimitive(v) ==
  v.k \in {"nil", "undef", "bool", "num", "nan", "inf", "ninf", "big", "str"}

\* new Set(items): an element equal to an earlier one is not added again
RECURSIVE SetOf(_)
SetOf(items) ==
  IF items = <<>> THEN <<>>
  ELSE LET init == SetOf(SubSeq(items, 1, Len(items) - 1))
           last == items[Len(items)]
       IN IF IsPrimitive(last) /\ \E i \in 1..Len(init) : init[i] = last
            THEN init
            ELSE Append(init, last)

\* map.set(key, val): a key equal to an earlier one replaces its value
MapSet(init, key, val) ==
  IF IsPrimitive(key) /\ \E i \in 1..Len(init) : init[i][1] = key
    THEN [i \in 1..Len(init) |-> IF init[i][1] = key THEN <<key, val>> ELSE init[i]]
    ELSE Append(init, <<key, val>>)

\* src/riv.js:228 only an entry that is an array of two elements is set
MapSetEntry(init, last) ==
  IF last.k = "seq" /\ Len(last.items) = 2
    THEN MapSet(init, last.items[1], last.items[2])
    ELSE init

\* src/riv.js:226 the map after entries.forEach
RECURSIVE MapOf(_)
MapOf(entries) ==
  IF entries = <<>> THEN <<>>
  ELSE MapSetEntry(MapOf(SubSeq(entries, 1, Len(entries) - 1)),
                   entries[Len(entries)])

\* result[key] = val on an object's entries
ObjSet(ents, key, val) ==
  IF \E i \in 1..Len(ents) : ents[i].key = key
    THEN [i \in 1..Len(ents) |->
            IF ents[i].key = key THEN [key |-> key, val |-> val] ELSE ents[i]]
    ELSE Append(ents, [key |-> key, val |-> val])

\* new RegExp(source, flags) raises on a flag given twice
FlagsValid(flags) ==
  \A i, j \in 1..Len(flags) : i # j => flags[i] # flags[j]

\* parseSpecial's results: [pos, err, val, found]; found = FALSE is the
\* undefined it returns when no literal and no tag matches
Found(r) == [pos |-> r.pos, err |-> r.err, val |-> r.val, found |-> TRUE]

NotFound(pos) == [pos |-> pos, err |-> "", val |-> Nil, found |-> FALSE]

\* src/riv.js:186 BigInt(str.slice(start, pos))
BigOf(end, big) ==
  IF big.k = "throw" THEN Raise(end, "Cannot convert to a BigInt")
  ELSE Ret(end, big)

\* src/riv.js:185
BigAt(str, start, end) == BigOf(end, StringToBigInt(Slice(str, start, end)))

\* src/riv.js:195
DateOf(pos, t) ==
  IF t.k = "nan" THEN Raise(pos, "Invalid date")
  ELSE Ret(pos, [k |-> "date", t |-> t.n])

\* src/riv.js:203
RegExpOf(pos, re) ==
  IF FlagsValid(re.flags) THEN Ret(pos, re)
  ELSE Raise(pos, "Invalid regular expression flags")

\* src/riv.js:189-216 the value of a tag whose payload is the string s that
\* parseString read
TaggedString(tag, s) ==
  IF s.err # "" THEN s
  ELSE IF tag = "date"
    THEN DateOf(s.pos, IF CONFIG.dateFormat = "timestamp"
                         THEN ParseInt(s.val.s)
                         ELSE DateParse(s.val.s))
  ELSE IF tag = "regex" THEN RegExpOf(s.pos, RegExpFromString(s.val.s))
  ELSE IF tag = "error" THEN Ret(s.pos, [k |-> "error", msg |-> s.val.s])
  ELSE Ret(s.pos, [k |-> "buf", bytes |-> BufferFromString(s.val.s)])

\* src/riv.js:218-233 the value of a tag whose payload is the array a that
\* parseArray read
TaggedArray(tag, a) ==
  IF a.err # "" THEN a
  ELSE IF tag = "set" THEN Ret(a.pos, [k |-> "set", items |-> SetOf(a.val.items)])
  ELSE Ret(a.pos, [k |-> "map", ents |-> MapOf(a.val.items)])

RECURSIVE parseValue(_, _), parseValueAt(_, _), parseToken(_, _, _),
          parseSpecial(_, _), parseArray(_, _), parseArrayLoop(_, _, _),
          parseArrayItem(_, _, _), parseArrayPush(_, _, _),
          parseObject(_, _), parseObjectBlock(_, _, _),
          parseObjectLoop(_, _, _, _), parseObjectLine(_, _, _, _, _),
          parseObjectEntry(_, _, _, _, _), parseObjectValue(_, _, _, _, _),
          parseObjectSet(_, _, _, _, _)

\* src/riv.js:174
parseSpecial(str, pos) ==
  IF StartsWith(str, <<"#", "n", "i", "l">>, pos) THEN Found(Ret(pos + 4, Nil))
  ELSE IF StartsWith(str, <<"#", "y", "e", "s">>, pos)
    THEN Found(Ret(pos + 4, [k |-> "bool", b |-> TRUE]))
  ELSE IF StartsWith(str, <<"#", "n", "o">>, pos)
    THEN Found(Ret(pos + 3, [k |-> "bool", b |-> FALSE]))
  ELSE IF StartsWith(str, <<"#", "n", "a", "n">>, pos)
    THEN Found(Ret(pos + 4, [k |-> "nan"]))
  ELSE IF StartsWith(str, <<"#", "i", "n", "f">>, pos)
    THEN Found(Ret(pos + 4, [k |-> "inf"]))
  ELSE IF StartsWith(str, <<"#", "-", "i", "n", "f">>, pos)
    THEN Found(Ret(pos + 5, [k |-> "ninf"]))
  ELSE IF StartsWith(str, <<"#", "b", "i", "g", ":">>, pos)
    THEN Found(BigAt(str, pos + 5,
                     ScanWhile(str, pos + 5, LAMBDA c : IsDigit(c) \/ c = "-")))
  ELSE IF StartsWith(str, <<"#", "d", "a", "t", "e", ":">>, pos)
    THEN Found(TaggedString("date", parseString(str, pos + 6)))
  ELSE IF StartsWith(str, <<"#", "r", "e", "g", "e", "x", ":">>, pos)
    THEN Found(TaggedString("regex", parseString(str, pos + 7)))
  ELSE IF StartsWith(str, <<"#", "e", "r", "r", "o", "r", ":">>, pos)
    THEN Found(TaggedString("error", parseString(str, pos + 7)))
  ELSE IF StartsWith(str, <<"#", "b", "u", "f", "f", "e", "r", ":">>, pos)
    THEN Found(TaggedString("buffer", parseString(str, pos + 8)))
  ELSE IF StartsWith(str, <<"#", "s", "e", "t", ":">>, pos)
    THEN Found(TaggedArray("set", parseArray(str, pos + 5)))
  ELSE IF StartsWith(str, <<"#", "m", "a", "p", ":">>, pos)
    THEN Found(TaggedArray("map", parseArray(str, pos + 5)))
  ELSE IF StartsWith(str, <<"t", "r", "u", "e">>, pos)
    THEN Found(Ret(pos + 4, [k |-> "bool", b |-> TRUE]))
  ELSE IF StartsWith(str, <<"f", "a", "l", "s", "e">>, pos)
    THEN Found(Ret(pos + 5, [k |-> "bool", b |-> FALSE]))
  ELSE IF StartsWith(str, <<"n", "u", "l", "l">>, pos) THEN Found(Ret(pos + 4, Nil))
  ELSE NotFound(pos)

\* src/riv.js:252 result.push(parseValue()), v being what parseValue yields
parseArrayPush(str, result, v) ==
  IF v.err # "" THEN v
  ELSE parseArrayLoop(str, v.pos, Append(result, v.val))

\* src/riv.js:250 one turn of the loop of parseArray, p being the cursor
\* after skip()
parseArrayItem(str, p, result) ==
  IF p >= Len(str) THEN Raise(p, "Unterminated array")
  ELSE IF str[p + 1] = ">" THEN Ret(p + 1, [k |-> "seq", items |-> result])
  ELSE parseArrayPush(str, result, parseValue(str, p))

\* src/riv.js:248 the loop of parseArray, result being the elements so far
parseArrayLoop(str, pos, result) ==
  IF pos < Len(str) THEN parseArrayItem(str, skip(str, pos), result)
  ELSE Ret(pos, [k |-> "seq", items |-> result])

\* src/riv.js:243
parseArray(str, pos) ==
  IF At(str, pos) # "<" THEN Raise(pos, "Expected <")
  ELSE parseArrayLoop(str, pos + 1, <<>>)

\* src/riv.js:328 result[key] = parseValue(), v being what parseValue
\* yields, and the skip to the end of the line of lines 331-332
parseObjectSet(str, key, v, baseIndent, result) ==
  IF v.err # "" THEN v
  ELSE parseObjectLoop(str, SkipToNextLine(str, v.pos), baseIndent,
                       ObjSet(result, key, v.val))

\* src/riv.js:319-328 after is the cursor after the spaces that follow
\* '=>': a value on the next line is read after that line's indentation
parseObjectValue(str, key, after, baseIndent, result) ==
  parseObjectSet(str, key,
                 parseValue(str, IF At(str, after) = NL
                                   THEN SkipSpaces(str, after + 1)
                                   ELSE after),
                 baseIndent, result)

\* src/riv.js:313-316 arrow is the cursor after the spaces that follow the
\* key
parseObjectEntry(str, key, arrow, baseIndent, result) ==
  IF Slice(str, arrow, arrow + 2) # <<"=", ">">> THEN Raise(arrow, "Expected =>")
  ELSE parseObjectValue(str, key, SkipSpaces(str, arrow + 2), baseIndent, result)

\* src/riv.js:289-337 one turn of the loop of parseObject, p being the
\* cursor after the indentation of the line that starts at lineStart
parseObjectLine(str, lineStart, p, baseIndent, result) ==
  IF At(str, p) = NL THEN parseObjectLoop(str, p + 1, baseIndent, result)
  ELSE IF p - lineStart < baseIndent /\ p < Len(str)
    THEN Ret(lineStart, [k |-> "obj", ents |-> result])
  ELSE IF p >= Len(str) \/ (p = lineStart /\ str[p + 1] \in {"@", ">", "<"})
    THEN Ret(IF p = lineStart THEN lineStart ELSE p, [k |-> "obj", ents |-> result])
  ELSE IF str[p + 1] = ":"
    THEN LET keyEnd == ScanWhile(str, p + 1, LAMBDA c : ~IsSpace(c) /\ c # "=")
         IN parseObjectEntry(str, Slice(str, p + 1, keyEnd),
                             SkipSpaces(str, keyEnd), baseIndent, result)
  ELSE parseObjectLoop(str, SkipToNextLine(str, p), baseIndent, result)

\* src/riv.js:280 the loop of parseObject, result being the entries so far;
\* it yields the entries in val.ents
parseObjectLoop(str, pos, baseIndent, result) ==
  IF pos < Len(str)
    THEN parseObjectLine(str, pos, SkipSpaces(str, pos), baseIndent, result)
    ELSE Ret(pos, [k |-> "obj", ents |-> result])

\* src/riv.js:267 the cursor after the rest of the header line
BlockStart(str, nameEnd) ==
  LET eol == ScanWhile(str, nameEnd, LAMBDA c : c # NL /\ IsSpace(c))
  IN IF At(str, eol) = NL THEN eol + 1 ELSE eol

\* src/riv.js:340 the object with its _name, body being what the loop yields
Named(name, body) ==
  IF body.err # "" THEN body
  ELSE Ret(body.pos,
           [k |-> "obj",
            ents |-> IF name # <<>>
                       THEN ObjSet(body.val.ents, <<"_", "n", "a", "m", "e">>,
                                   Str(name))
                       ELSE body.val.ents])

\* src/riv.js:270-338 the block that starts at first, whose base indentation
\* is that of its first line
parseObjectBlock(str, name, first) ==
  Named(name, parseObjectLoop(str, first, SkipSpaces(str, first) - first, <<>>))

\* src/riv.js:258
parseObject(str, pos) ==
  IF At(str, pos) # "@" THEN Raise(pos, "Expected @")
  ELSE LET nameEnd == ScanWhile(str, pos + 1, LAMBDA c : ~IsSpace(c))
       IN parseObjectBlock(str, Slice(str, pos + 1, nameEnd),
                           BlockStart(str, nameEnd))

\* src/riv.js:350-359 special being what parseSpecial yields at p
parseToken(str, p, special) ==
  IF special.found
    THEN [pos |-> special.pos, err |-> special.err, val |-> special.val]
  ELSE IF str[p + 1] = DQ THEN parseString(str, p)
  ELSE IF str[p + 1] = "<" THEN parseArray(str, p)
  ELSE IF str[p + 1] = "@" THEN parseObject(str, p)
  ELSE IF IsDigit(str[p + 1]) \/ str[p + 1] = "-" THEN parseNumber(str, p)
  ELSE Raise(p, "Invalid token")

\* src/riv.js:348 p being the cursor after the blanks
parseValueAt(str, p) ==
  IF p >= Len(str) THEN Raise(p, "Unexpected end")
  ELSE parseToken(str, p, parseSpecial(str, p))

\* src/riv.js:344
parseValue(str, pos) == parseValueAt(str, skip(str, pos))

\* src/riv.js:368 the context window around the cursor
ContextBefore == 10

ContextAfter == 10

\* the window without its lower end: the text from its start
ContextFromStart(str, pos) == Slice(str, 0, pos + ContextAfter)

Context(str, pos) == Slice(str, Max(0, pos - ContextBefore), pos + ContextAfter)

\* src/riv.js:367 what the catch block raises: the message, and the context
\* appended to it
Caught(str, pos, message) ==
  [err |-> message, context |-> <<Context(str, pos)>>, val |-> Nil, pos |-> pos]

\* src/riv.js:364-366 end being the cursor after skipLine()
Finished(str, v, end) ==
  IF end < Len(str) THEN Caught(str, end, "Unexpected content")
  ELSE [err |-> "", context |-> <<>>, val |-> v.val, pos |-> end]

\* src/riv.js:362-370 v being what parseValue yields at the start
Parsed(str, v) ==
  IF v.err # "" THEN Caught(str, v.pos, v.err)
  ELSE Finished(str, v, skipLine(str, v.pos))

\* src/riv.js:124 deserialize(str): [err, context, val, pos]; err is the
\* original message ("" when a value is returned) and context the snippets
\* appended to it, in order
deserialize(str) ==
  IF str = <<>>
    THEN [err |-> "Invalid input", context |-> <<>>, val |-> Nil, pos |-> 0]
  ELSE IF Len(str) > CONFIG.maxLength
    THEN [err |-> "Input too long", context |-> <<>>, val |-> Nil, pos |-> 0]
  ELSE Parsed(str, parseValue(str, 0))

\* src/riv.js:383 text being what serialize yields: what serialize raises,
\* clone raises
Decode(text) ==
  IF text.err # ""
    THEN [err |-> text.err, context |-> <<>>, val |-> Nil, pos |-> 0]
    ELSE deserialize(text.text)

\* src/riv.js:382
clone(value) == Decode(serialize(value, <<>>, 0))

---------------------------------------------------------------------------
(* merge and validate *)

\* obj[key]: the entry's value, undefined when there is none (an object that
\* is no mapping has the properties deepMerge gave it, if any)
PropsOf(v) ==
  IF v.k = "obj" THEN v.ents
  ELSE IF "props" \in DOMAIN v THEN v.props
  ELSE <<>>

Get(v, key) ==
  LET ents == PropsOf(v)
  IN IF \E i \in 1..Len(ents) : ents[i].key = key
       THEN ents[CHOOSE i \in 1..Len(ents) : ents[i].key = key].val
       ELSE [k |-> "undef"]

\* the value with its own properties replaced by ents
WithProps(v, ents) ==
  IF v.k = "obj" THEN [k |-> "obj", ents |-> ents]
  ELSE [props |-> ents] @@ v

\* the truthiness of a value
Truthy(v) ==
  CASE v.k \in {"nil", "undef", "nan"} -> FALSE
    [] v.k = "bool" -> v.b
    [] v.k = "num" -> v.m # 0
    [] v.k = "big" -> v.n # 0
    [] v.k = "str" -> v.s # <<>>
    [] OTHER -> TRUE

\* typeof v
TypeOf(v) ==
  CASE v.k = "undef" -> <<"u", "n", "d", "e", "f", "i", "n", "e", "d">>
    [] v.k = "bool" -> <<"b", "o", "o", "l", "e", "a", "n">>
    [] v.k \in {"num", "nan", "inf", "ninf"} -> <<"n", "u", "m", "b", "e", "r">>
    [] v.k = "big" -> <<"b", "i", "g", "i", "n", "t">>
    [] v.k = "str" -> <<"s", "t", "r", "i", "n", "g">>
    [] v.k = "fn" -> <<"f", "u", "n", "c", "t", "i", "o", "n">>
    [] OTHER -> <<"o", "b", "j", "e", "c", "t">>

TypeObject == <<"o", "b", "j", "e", "c", "t">>

\* src/riv.js:391 src[key] && typeof src[key] === 'object' && !Array.isArray(src[key])
IsMergeable(sv) == Truthy(sv) /\ TypeOf(sv) = TypeObject /\ sv.k # "seq"

\* src/riv.js:389 deepMerge(tgt, src): [err, val], val being tgt after the
\* loop over the first n keys of src.  In strict mode an assignment to a
\* property of a primitive raises a TypeError, as does any property access
\* on null.
RECURSIVE deepMergeUpTo(_, _, _)
deepMergeUpTo(tgt, src, n) ==
  IF n = 0 THEN [err |-> "", val |-> tgt]
  ELSE LET before == deepMergeUpTo(tgt, src, n - 1)
           t == before.val
           key == PropsOf(src)[n].key
           sv == PropsOf(src)[n].val
           cur == Get(t, key)
           base == IF Truthy(cur) THEN cur ELSE [k |-> "obj", ents |-> <<>>]
           inner == deepMergeUpTo(base, sv, Len(PropsOf(sv)))
       IN IF before.err # "" THEN before
          ELSE IF t.k = "nil" \/ (TypeOf(t) # TypeObject /\ t.k # "fn")
            THEN [err |-> "TypeError", val |-> t]
          ELSE IF IsMergeable(sv)
            THEN IF inner.err # "" THEN [err |-> inner.err, val |-> t]
                 ELSE [err |-> "",
                       val |-> WithProps(t, ObjSet(PropsOf(t), key, inner.val))]
          ELSE [err |-> "", val |-> WithProps(t, ObjSet(PropsOf(t), key, sv))]

deepMerge(tgt, src) == deepMergeUpTo(tgt, src, Len(PropsOf(src)))

\* src/riv.js:401 merged being what deepMerge yields
mergeReturn(merged) ==
  [err |-> merged.err, context |-> <<>>,
   val |-> IF merged.err = "" THEN merged.val ELSE Nil, pos |-> 0]

\* src/riv.js:387 result being what clone(target) yields: what clone raises,
\* merge raises
mergeInto(result, source) ==
  IF result.err # "" THEN result
  ELSE mergeReturn(deepMerge(result.val, source))

\* src/riv.js:386 merge(target, source): [err, context, val, pos] as clone
merge(target, source) == mergeInto(clone(target), source)

Bool(b) == [k |-> "bool", b |-> b]

Raised == [k |-> "throw"]

\* src/riv.js:405 check(schemaNode, dataNode): a boolean value, or Raised
\* when it raises (a property read off null is a TypeError).  checkEvery is
\* dataNode.every(...) from element i on, checkFields the loop over the
\* schema's keys from entry i on.
RECURSIVE check(_, _), checkEvery(_, _, _), checkFields(_, _, _)
checkEvery(schemaNode, items, i) ==
  IF i > Len(items) THEN Bool(TRUE)
  ELSE LET first == check(IF Len(schemaNode.items) > 0 THEN schemaNode.items[1]
                          ELSE [k |-> "undef"],
                          items[i])
       IN IF first = Bool(TRUE) THEN checkEvery(schemaNode, items, i + 1)
          ELSE first

checkFields(schemaNode, dataNode, i) ==
  IF i > Len(schemaNode.ents) THEN Bool(TRUE)
  ELSE IF dataNode.k = "nil" THEN Raised
  ELSE LET first == check(schemaNode.ents[i].val,
                          Get(dataNode, schemaNode.ents[i].key))
       IN IF first = Bool(TRUE) THEN checkFields(schemaNode, dataNode, i + 1)
          ELSE first

check(schemaNode, dataNode) ==
  IF schemaNode.k = "nil" THEN Bool(dataNode.k = "nil")
  ELSE IF schemaNode.k = "str"
    THEN IF schemaNode.s = <<"a", "n", "y">> THEN Bool(TRUE)
         ELSE IF schemaNode.s = <<"a", "r", "r", "a", "y">>
           THEN Bool(dataNode.k = "seq")
         ELSE IF schemaNode.s = TypeObject
           THEN Bool(TypeOf(dataNode) = TypeObject /\ dataNode.k # "seq")
         ELSE Bool(TypeOf(dataNode) = schemaNode.s)
  ELSE IF schemaNode.k = "seq"
    THEN IF dataNode.k # "seq" THEN Bool(FALSE)
         ELSE checkEvery(schemaNode, dataNode.items, 1)
  ELSE IF TypeOf(schemaNode) = TypeObject
    THEN IF TypeOf(dataNode) # TypeObject \/ dataNode.k = "seq" THEN Bool(FALSE)
         ELSE checkFields(schemaNode, dataNode, 1)
  ELSE Bool(FALSE)

\* src/riv.js:404 validate(schema, data): [err, context, val, pos] as clone
validate(schema, data) ==
  LET r == check(schema, data)
  IN IF r = Raised
       THEN [err |-> "TypeError", context |-> <<>>, val |-> Nil, pos |-> 0]
       ELSE [err |-> "", context |-> <<>>, val |-> r, pos |-> 0]

---------------------------------------------------------------------------
(* The values the calls are made with *)

\* the most elements, entries or pairs of a generated container
MaxItems == 2

KeyA == <<"a">>
KeyB == <<"b">>
KeyC == <<"c">>

Seqv(items) == [k |-> "seq", items |-> items]
Setv(items) == [k |-> "set", items |-> items]
Mapv(ents) == [k |-> "map", ents |-> ents]
Objv(ents) == [k |-> "obj", ents |-> ents]
En(key, val) == [key |-> key, val |-> val]

Strings ==
  { Str(<<>>), Str(<<"a">>), Str(<<"n">>), Str(<<"a", SP, "b">>),
    Str(<<DQ>>), Str(<<BSL>>), Str(<<BSL, "n">>), Str(<<"a", NL, "b">>),
    Str(<<CR>>), Str(<<TAB>>), Str(<<BS>>), Str(<<FF>>), Str(<<"@">>),
    Str(<<">">>), Str(<<"#", "n", "i", "l">>) }

Numbers ==
  { Num(0), Num(7), Num(-12), Num(100), Normalize(25, -1), Normalize(-5, -1),
    Normalize(1, 21), Normalize(1, -7), Normalize(12345, -2),
    [k |-> "nan"], [k |-> "inf"], [k |-> "ninf"] }

Others ==
  { Nil, [k |-> "bool", b |-> TRUE], [k |-> "bool", b |-> FALSE],
    [k |-> "big", n |-> 0], [k |-> "big", n |-> 123], [k |-> "big", n |-> -5],
    [k |-> "date", t |-> 0], [k |-> "date", t |-> 45296789],
    [k |-> "regex", src |-> <<"a">>, flags |-> <<>>],
    [k |-> "regex", src |-> <<"a", "b">>, flags |-> <<"g", "i">>],
    [k |-> "regex", src |-> <<BSL, "d">>, flags |-> <<"m">>],
    [k |-> "regex", src |-> <<"a">>, flags |-> <<"s">>],
    [k |-> "error", msg |-> <<"b", "o", "o", "m">>],
    [k |-> "error", msg |-> <<DQ, "x", DQ>>],
    [k |-> "buf", bytes |-> <<>>], [k |-> "buf", bytes |-> <<0>>],
    [k |-> "buf", bytes |-> <<1, 255>>] }

Leaves == Strings \cup Numbers \cup Others

\* the sequences of at most n elements of S
SeqsUpTo(S, n) == UNION {[1..m -> S] : m \in 0..n}

\* the objects with at most n entries, their keys among K in any order and
\* their values in S
ObjsOver(K, S, n) ==
  LET keyLists == {ks \in SeqsUpTo(K, n) :
                     \A i, j \in 1..Len(ks) : i # j => ks[i] # ks[j]}
  IN UNION {{Objv([i \in 1..Len(ks) |-> En(ks[i], vs[i])]) :
               vs \in [1..Len(ks) -> S]} : ks \in keyLists}

\* the containers of every kind with at most n children from S
Containers(S, n) ==
  {Seqv(items) : items \in SeqsUpTo(S, n)}
    \cup {Setv(items) : items \in
            {xs \in SeqsUpTo(S, n) : \A i, j \in 1..Len(xs) : i # j => xs[i] # xs[j]}}
    \cup {Mapv(ents) : ents \in
            {ps \in SeqsUpTo(S \X S, n \div 2 + 1) :
               \A i, j \in 1..Len(ps) : i # j => ps[i][1] # ps[j][1]}}
    \cup ObjsOver({KeyA, KeyB, KeyC}, S, n)

Kids == {Num(1), Str(<<"x">>)}

Level1 == Containers(Leaves, 1) \cup Containers(Kids, MaxItems)

Kids2 == {Num(1), Seqv(<<>>), Seqv(<<Num(1)>>), Objv(<<>>), Objv(<<En(KeyA, Num(1))>>)}

Level2 == Containers(Kids2, MaxItems)

\* sequences around the inline width: 59, 60 and 79 characters inline
LongSeqs ==
  { Seqv([i \in 1..20 |-> Num(10)]),
    Seqv([i \in 1..20 |-> IF i = 20 THEN Num(100) ELSE Num(10)]),
    Seqv([i \in 1..20 |-> Num(100)]) }

TreeValues == Leaves \cup Level1 \cup Level2 \cup LongSeqs

Configs(depths, lengths, formats) ==
  [indent : {2}, maxDepth : depths, maxLength : lengths, dateFormat : formats]

NoHeap == <<>>

NoText == [err |-> "", text |-> <<>>]

NoResult == [err |-> "", context |-> <<>>, val |-> Nil, pos |-> 0]

Ref(id) == [k |-> "ref", id |-> id]

Fn == [k |-> "fn"]

\* the values directly contained in a container (a Map contains its keys and
\* its values), in the order the serializer visits them
Children(v) ==
  CASE v.k \in {"seq", "set"} -> v.items
    [] v.k = "map" -> Concat([i \in 1..Len(v.ents) |-> <<v.ents[i][1], v.ents[i][2]>>])
    [] v.k = "obj" -> [i \in 1..Len(v.ents) |-> v.ents[i].val]
    [] OTHER -> <<>>

\* the references a value holds, in itself or in the containers written
\* inline in it
RECURSIVE RefsIn(_)
RefsIn(v) ==
  IF v.k = "ref" THEN {v.id}
  ELSE UNION {RefsIn(Children(v)[i]) : i \in 1..Len(Children(v))}

\* the ids of the heap objects that object id contains
Edges(id) == RefsIn(heap[id])

\* the ids reachable from the ids of S in at least one step
RECURSIVE ReachFrom(_, _)
ReachFrom(S, seen) ==
  LET next == UNION {Edges(id) : id \in S} \ seen
  IN IF next = {} THEN seen ELSE ReachFrom(next, seen \cup next)

\* object id is reachable from itself
OnCycle(id) == id \in ReachFrom({id}, {})

\* no object reachable from value v lies on a cycle
Acyclic(v) ==
  \A id \in RefsIn(v) \cup ReachFrom(RefsIn(v), {}) : ~OnCycle(id)

\* the tree an acyclic value denotes: every reference replaced by a copy of
\* its object
RECURSIVE Unfold(_)
Unfold(v) ==
  CASE v.k = "ref" -> Unfold(heap[v.id])
    [] v.k \in {"seq", "set"} ->
         [k |-> v.k, items |-> [i \in 1..Len(v.items) |-> Unfold(v.items[i])]]
    [] v.k = "map" ->
         Mapv([i \in 1..Len(v.ents) |->
                 <<Unfold(v.ents[i][1]), Unfold(v.ents[i][2])>>])
    [] v.k = "obj" ->
         Objv([i \in 1..Len(v.ents) |-> En(v.ents[i].key, Unfold(v.ents[i].val))])
    [] OTHER -> v

\* a tree's nesting depth, the root at level 0: the level of its deepest
\* value that serialize is called on (function-valued entries are not)
RECURSIVE Depth(_)
Depth(v) ==
  LET kids == IF v.k = "obj" THEN [i \in 1..Len(Entries(v)) |-> Entries(v)[i].val]
              ELSE Children(v)
  IN IF kids = <<>> THEN 0
     ELSE 1 + (CHOOSE d \in {Depth(kids[i]) : i \in 1..Len(kids)} :
                 \A i \in 1..Len(kids) : Depth(kids[i]) <= d)

\* a tree of supported kinds only: no function anywhere in it
RECURSIVE Supported(_)
Supported(v) ==
  /\ v.k # "fn"
  /\ \A i \in 1..Len(Children(v)) : Supported(Children(v)[i])

\* structural equivalence of two trees: the same kind (null and undefined
\* are the one kind Nil), the same elements in the same order, the same
\* mapping keys with equivalent values, the same payload
RECURSIVE Equiv(_, _)
Equiv(v, w) ==
  LET kind(x) == IF x.k = "undef" THEN "nil" ELSE x.k
  IN /\ kind(v) = kind(w)
     /\ CASE v.k \in {"seq", "set"} ->
               /\ Len(v.items) = Len(w.items)
               /\ \A i \in 1..Len(v.items) : Equiv(v.items[i], w.items[i])
          [] v.k = "map" ->
               /\ Len(v.ents) = Len(w.ents)
               /\ \A i \in 1..Len(v.ents) :
                    /\ Equiv(v.ents[i][1], w.ents[i][1])
                    /\ Equiv(v.ents[i][2], w.ents[i][2])
          [] v.k = "obj" ->
               /\ {v.ents[i].key : i \in 1..Len(v.ents)}
                    = {w.ents[i].key : i \in 1..Len(w.ents)}
               /\ \A i \in 1..Len(v.ents) : \A j \in 1..Len(w.ents) :
                    v.ents[i].key = w.ents[j].key
                      => Equiv(v.ents[i].val, w.ents[j].val)
          [] v.k \in {"nil", "undef"} -> TRUE
          [] OTHER -> v = w

---------------------------------------------------------------------------
(* The calls *)

\* objects with function-valued fields, and the mapping b, a, c
FnObjects ==
  { Objv(<<En(KeyA, Fn)>>),
    Objv(<<En(KeyA, Num(1)), En(KeyB, Fn)>>),
    Objv(<<En(KeyB, Fn), En(KeyA, Num(1))>>),
    Objv(<<En(KeyB, Num(1)), En(KeyA, Num(2)), En(KeyC, Num(3))>>),
    Objv(<<En(KeyB, Str(<<"x">>)), En(KeyA, Seqv(<<Num(1)>>)), En(KeyC, Nil)>>) }

\* a mapping whose sibling fields hold one and the same object, heap[1]
SharedInputs ==
  {[heap |-> <<sub>>, value |-> root] :
     sub \in Containers(Kids, MaxItems),
     root \in { Objv(<<En(KeyA, Ref(1)), En(KeyB, Ref(1))>>),
                Objv(<<En(KeyA, Ref(1)), En(KeyC, Num(1)), En(KeyB, Ref(1))>>),
                Objv(<<En(KeyA, Ref(1)), En(KeyB, Ref(1)), En(KeyC, Num(1))>>) }}

CodecInputs ==
  {[heap |-> NoHeap, value |-> v] : v \in TreeValues \cup FnObjects}
    \cup SharedInputs

\* the caller holds a value and its text: serialize(value), then
\* deserialize of the text it returned, or clone(value) at once
InitCodec ==
  /\ CONFIG \in Configs({100}, {1000000}, {"iso", "timestamp"})
  /\ \E g \in CodecInputs :
       /\ heap = g.heap
       /\ call = [op |-> "clone", value |-> g.value]
  /\ pc = "ready"
  /\ encoded = NoText
  /\ outcome = NoResult
  /\ stack = <<>>

Serialize ==
  /\ pc = "ready"
  /\ call.op \in {"clone", "serialize"}
  /\ encoded' = serialize(call.value, <<>>, 0)
  /\ pc' = "serialized"
  /\ UNCHANGED <<CONFIG, heap, call, outcome, stack>>

Deserialize ==
  /\ pc = "serialized"
  /\ encoded.err = ""
  /\ outcome' = deserialize(encoded.text)
  /\ pc' = "done"
  /\ UNCHANGED <<CONFIG, heap, call, encoded, stack>>

Clone ==
  /\ pc = "ready"
  /\ call.op = "clone"
  /\ outcome' = clone(call.value)
  /\ encoded' = serialize(call.value, <<>>, 0)
  /\ pc' = "done"
  /\ UNCHANGED <<CONFIG, heap, call, stack>>

NextCodec == Serialize \/ Deserialize \/ Clone

SpecCodec == InitCodec /\ [][NextCodec]_vars

\* the largest maxDepth the encoder is configured with
MaxDepthCfg == 2

\* the objects a heap of two objects holds: a container of some kind whose
\* children are the number 1 and references to the heap's objects
NodeKids == {Num(1), Ref(1), Ref(2)}

Nodes ==
  {c \in Containers(NodeKids, MaxItems) : Children(c) # <<>>}

\* the second object holds one child
GraphInputs ==
  {[heap |-> <<n1, n2>>, value |-> Ref(1)] :
     n1 \in Nodes, n2 \in Nodes \cap Containers(NodeKids, 1)}

\* the chains of containers, one inside the other, of at most n levels
RECURSIVE Chains(_)
Chains(n) ==
  IF n = 0 THEN {Num(1), Str(<<"x">>)}
  ELSE LET inner == Chains(n - 1)
       IN inner
            \cup {Seqv(<<c>>) : c \in inner}
            \cup {Setv(<<c>>) : c \in inner}
            \cup {Mapv(<<<<Num(1), c>>>>) : c \in inner}
            \cup {Mapv(<<<<c, Num(1)>>>>) : c \in inner}
            \cup {Objv(<<En(KeyA, c)>>) : c \in inner}
            \cup {Objv(<<En(KeyA, Num(1)), En(KeyB, c)>>) : c \in inner}

EncodeInputs ==
  {[heap |-> NoHeap, value |-> v] :
     v \in Leaves \cup Level2 \cup FnObjects \cup Chains(MaxDepthCfg + 1)}
    \cup GraphInputs

\* the caller serializes a value, which may hold shared objects and cycles,
\* under a small depth limit
InitEncode ==
  /\ CONFIG \in Configs(0..MaxDepthCfg, {1000000}, {"iso"})
  /\ \E g \in EncodeInputs :
       /\ heap = g.heap
       /\ call = [op |-> "serialize", value |-> g.value]
  /\ pc = "ready"
  /\ encoded = NoText
  /\ outcome = NoResult
  /\ stack = <<>>

NextEncode == Serialize

SpecEncode == InitEncode /\ [][NextEncode]_vars

\* the longest text of the exhaustive part of the decoder's inputs
MaxTextLen == 4

TextAlphabet == {"<", ">", "1", SP, DQ, "@", "x"}

ShortTexts == SeqsUpTo(TextAlphabet, MaxTextLen)

\* n copies of text t, joined by single spaces
Repeat(t, n) == Join([i \in 1..n |-> t], <<SP>>)

SampleTexts ==
  { <<"<", "<", "1", ">", ">">>,
    <<"<", "<", "<", "1", ">", ">", ">">>,
    <<"<", "<", "<", ">", " ", "<", "1", ">", ">", ">">>,
    <<"#", "s", "e", "t", ":", "<", "<", "1", ">", ">">>,
    <<"#", "m", "a", "p", ":", "<", "<", "1", " ", "<", "1", ">", ">", ">">>,
    <<"@", NL, " ", ":", "a", " ", "=", ">", " ", "<", "<", "1", ">", ">">>,
    <<"@", NL, " ", ":", "a", " ", "=", ">", NL, " ", " ", "@", NL,
      " ", " ", " ", ":", "b", " ", "=", ">", " ", "1">>,
    <<"<">> \o Repeat(<<"1">>, 8) \o <<SP, "x", SP>> \o Repeat(<<"1">>, 8) \o <<">">>,
    <<"<">> \o Repeat(<<"1", "2">>, 6) \o <<SP, DQ, "a", "b">>,
    <<"<">> \o Repeat(<<"1">>, 12),
    <<"<">> \o Repeat(<<"1">>, 12) \o <<SP>>,
    <<"@", "u", NL, " ", ":", "a", " ", "=", " ", "1", NL, " ", ":", "b", " ",
      "=", ">", " ", "2", NL>>,
    <<"1", ".", "2", ".", "3">>,
    <<"-">>,
    <<"1", "e">>,
    <<"1", "2", SP, NL, SP, "x", SP, "1", "2", "3", "4", "5", "6", "7", "8", "9">>,
    <<"#", "b", "i", "g", ":", "1", "-", "2">>,
    <<"#", "d", "a", "t", "e", ":", DQ, "z", DQ>>,
    <<"#", "r", "e", "g", "e", "x", ":", DQ, "/", "a", "/", "g", "g", DQ>>,
    <<"#", "n", "o", "p", "e">>,
    <<"n", "u", "l", "l">>,
    <<"{", DQ, "a", DQ, ":", "1", "}">> }

DecodeTexts == ShortTexts \cup SampleTexts

\* the caller deserializes a text, under a small or the default depth and
\* length limit
InitDecode ==
  /\ CONFIG \in Configs({1, 100}, {MaxTextLen - 1, 1000000}, {"iso"})
  /\ heap = NoHeap
  /\ call \in {[op |-> "deserialize", str |-> t] : t \in DecodeTexts}
  /\ pc = "ready"
  /\ encoded = NoText
  /\ outcome = NoResult
  /\ stack = <<>>

DeserializeText ==
  /\ pc = "ready"
  /\ call.op = "deserialize"
  /\ outcome' = deserialize(call.str)
  /\ pc' = "done"
  /\ UNCHANGED <<CONFIG, heap, call, encoded, stack>>

NextDecode == DeserializeText

SpecDecode == InitDecode /\ [][NextDecode]_vars

KeyD == <<"d">>
KeyE == <<"e">>

MergeKids ==
  { Num(1), Nil, Str(<<"x">>), Seqv(<<Num(1)>>), Objv(<<>>),
    Objv(<<En(KeyC, Num(2))>>), [k |-> "date", t |-> 0] }

MergeObjs == ObjsOver({KeyA, KeyB}, MergeKids, MaxItems)

\* the README's example: merge({a:1,b:{c:2}}, {b:{d:3},e:4})
MergeExample ==
  [op |-> "merge",
   target |-> Objv(<<En(KeyA, Num(1)), En(KeyB, Objv(<<En(KeyC, Num(2))>>))>>),
   source |-> Objv(<<En(KeyB, Objv(<<En(KeyD, Num(3))>>)), En(KeyE, Num(4))>>)]

InitMerge ==
  /\ CONFIG \in Configs({100}, {1000000}, {"iso"})
  /\ heap = NoHeap
  /\ call \in {[op |-> "merge", target |-> t, source |-> s] :
                 t \in MergeObjs, s \in MergeObjs} \cup {MergeExample}
  /\ pc = "ready"
  /\ encoded = NoText
  /\ outcome = NoResult
  /\ stack = <<>>

Merge ==
  /\ pc = "ready"
  /\ call.op = "merge"
  /\ outcome' = merge(call.target, call.source)
  /\ pc' = "done"
  /\ UNCHANGED <<CONFIG, heap, call, encoded, stack>>

NextMerge == Merge

SpecMerge == InitMerge /\ [][NextMerge]_vars

TypeNames ==
  { <<"s", "t", "r", "i", "n", "g">>, <<"n", "u", "m", "b", "e", "r">>,
    <<"b", "o", "o", "l", "e", "a", "n">>, TypeObject,
    <<"a", "r", "r", "a", "y">>, <<"a", "n", "y">> }

\* the schema vocabulary: a type name, a one-element array, a mapping
Schemas0 == {Str(n) : n \in TypeNames}

Schemas1 ==
  Schemas0 \cup {Seqv(<<sc>>) : sc \in Schemas0}
    \cup ObjsOver({KeyA, KeyB}, Schemas0, MaxItems)

Schemas ==
  Schemas1
    \cup {Seqv(<<sc>>) : sc \in Schemas1}
    \cup {Objv(<<En(KeyA, sc)>>) : sc \in Schemas1}

ValidateKids == {Num(1), Str(<<"x">>), Nil}

ValidateData ==
  Leaves \cup Containers(ValidateKids, MaxItems)
    \cup {Seqv(<<c>>) : c \in Containers(ValidateKids, 1)}
    \cup {Objv(<<En(KeyA, c)>>) : c \in Containers(ValidateKids, 1)}

\* the README's example: {name:'string',tags:['string']}, written with the
\* keys a and b, against {a:'x',b:['x','x']} and {a:'x',b:[1]}
InitValidate ==
  /\ CONFIG \in Configs({100}, {1000000}, {"iso"})
  /\ heap = NoHeap
  /\ call \in {[op |-> "validate", schema |-> sc, data |-> d] :
                 sc \in Schemas, d \in ValidateData}
  /\ pc = "ready"
  /\ encoded = NoText
  /\ outcome = NoResult
  /\ stack = <<>>

Validate ==
  /\ pc = "ready"
  /\ call.op = "validate"
  /\ outcome' = validate(call.schema, call.data)
  /\ pc' = "done"
  /\ UNCHANGED <<CONFIG, heap, call, encoded, stack>>

NextValidate == Validate

SpecValidate == InitValidate /\ [][NextValidate]_vars

---------------------------------------------------------------------------
(* Claims about serialize, deserialize and clone *)

Keys(ents) == [i \in 1..Len(ents) |-> ents[i].key]

\* the keys of the entry lines of a mapping block written at level 0: the
\* lines that begin with one level of indentation and a colon
TextKeys(txt) ==
  LET lines == Split(txt, NL)
      lead == indent(1) \o <<":">>
      isEntry(line) == StartsWith(line, lead, 0)
      keyOf(line) == Slice(line, Len(lead),
                           ScanWhile(line, Len(lead), LAMBDA c : c # SP))
      entryLines == SelectSeq(Tail(lines), isEntry)
  IN [i \in 1..Len(entryLines) |-> keyOf(entryLines[i])]

\* C1: for every value v of a supported kind, deserialize(serialize(v))
\* returns without raising a value structurally equivalent to v
C1_RoundTrip ==
  (pc = "done" /\ call.op = "clone" /\ heap = NoHeap /\ Supported(call.value))
    => (outcome.err = "" /\ Equiv(outcome.val, call.value))

\* C3: when sibling fields of a mapping hold the same sub-object, which is
\* not an ancestor of itself, serialize succeeds and deserialize of its text
\* yields a mapping in which each of these fields is present and holds a
\* copy equivalent to the sub-object
C3_SharedSiblings ==
  (pc = "done" /\ call.op = "clone" /\ heap # NoHeap /\ Acyclic(call.value))
    => /\ encoded.err = ""
       /\ outcome.err = ""
       /\ outcome.val.k = "obj"
       /\ \A i \in 1..Len(call.value.ents) :
            call.value.ents[i].val.k = "ref"
              => \E j \in 1..Len(outcome.val.ents) :
                   /\ outcome.val.ents[j].key = call.value.ents[i].key
                   /\ Equiv(outcome.val.ents[j].val,
                            Unfold(call.value.ents[i].val))

\* C5: serialize of a non-empty mapping emits the header line and then one
\* entry per non-function field, in insertion order, and deserialize of the
\* block yields the entries in their textual order
C5_MappingOrder ==
  (pc = "done" /\ call.op = "clone" /\ call.value.k = "obj"
     /\ Entries(call.value) # <<>>)
    => /\ encoded.err = ""
       /\ At(encoded.text, 0) = "@" /\ At(encoded.text, 1) = NL
       /\ TextKeys(encoded.text) = Keys(Entries(call.value))
       /\ outcome.err = ""
       /\ outcome.val.k = "obj"
       /\ Keys(outcome.val.ents) = TextKeys(encoded.text)

\* C2: serialize of a mapping or sequence that is reachable from itself,
\* through any chain of contained values, fails with the circular-reference
\* error and no other
C2_CircularRejected ==
  (pc = "serialized" /\ call.value.k = "ref"
     /\ heap[call.value.id].k \in {"seq", "obj"} /\ OnCycle(call.value.id))
    => encoded = Throw("Circular reference")

\* C4: from level 0, serialize of a value whose deepest nested value sits at
\* level maxDepth, or at a smaller level, succeeds; serialize of a value with
\* a nested value at level maxDepth + 1, or at a greater level, fails with
\* the max-depth error and returns no text
C4_DepthLimit ==
  (pc = "serialized" /\ Acyclic(call.value))
    => LET d == Depth(Unfold(call.value))
       IN /\ d <= CONFIG.maxDepth => encoded.err = ""
          /\ d > CONFIG.maxDepth => encoded = Throw("Max depth exceeded")

\* a value nested one level beyond maxDepth was refused, and one nested to
\* maxDepth exactly would have been written
C4_Witness ==
  /\ pc = "serialized"
  /\ Acyclic(call.value)
  /\ CONFIG.maxDepth >= 1
  /\ Depth(Unfold(call.value)) = CONFIG.maxDepth + 1
  /\ encoded.err = "Max depth exceeded"

---------------------------------------------------------------------------
(* Claims about deserialize on arbitrary text *)

Decoded == pc = "done" /\ call.op = "deserialize"

\* the input from 10 characters before to 10 characters after cursor pos
Window(str, pos) ==
  LET lo == IF pos > 10 THEN pos - 10 ELSE 0
      hi == IF pos + 10 < Len(str) THEN pos + 10 ELSE Len(str)
  IN [i \in 1..(hi - lo) |-> str[lo + i]]

C9_DecoderDepthBound ==
  (Decoded /\ outcome.err = "") => Depth(outcome.val) <= CONFIG.maxDepth

\* C10: for a text that opens a sequence with '<' and holds no '>' at all,
\* deserialize never returns a value, and when the rest of the text is
\* numbers and spaces only it fails with the 'unterminated' error
C10_UnterminatedSequence ==
  (Decoded /\ Len(call.str) <= CONFIG.maxLength
     /\ At(call.str, 0) = "<" /\ ~Includes(call.str, ">"))
    => /\ outcome.err # ""
       /\ (\A i \in 2..Len(call.str) : IsDigit(call.str[i]) \/ call.str[i] = SP)
            => outcome.err = "Unterminated array"

---------------------------------------------------------------------------
(* Claims about merge and validate *)

\* the mapping the claim describes for mappings t and s: at a key where s
\* holds a mapping, the merge of t's value (an empty mapping when t holds
\* none there) and s's value; at any other key of s, s's value; at a key
\* absent from s, t's value
RECURSIVE Merged(_, _)
Merged(t, s) ==
  LET tv(key) == Get(t, key)
      fromT == SelectSeq(t.ents,
                 LAMBDA en : \A i \in 1..Len(s.ents) : s.ents[i].key # en.key)
      fromS == [i \in 1..Len(s.ents) |->
                  LET sv == s.ents[i].val
                      old == tv(s.ents[i].key)
                  IN En(s.ents[i].key,
                        IF sv.k = "obj"
                          THEN Merged(IF old.k = "obj" THEN old ELSE Objv(<<>>), sv)
                          ELSE sv)]
  IN Objv(fromT \o fromS)

\* C6: merge(target, source) returns, without raising, the mapping that
\* merges source's mappings into target's recursively, takes every other
\* value of source as it is and keeps target's value at every other key
C6_Merge ==
  (pc = "done" /\ call.op = "merge")
    => /\ outcome.err = ""
       /\ Equiv(outcome.val, Merged(call.target, call.source))

\* the conformance the claim describes
RECURSIVE Conforms(_, _)
Conforms(schema, data) ==
  CASE schema.k = "str" ->
         (CASE schema.s = <<"a", "n", "y">> -> TRUE
            [] schema.s = <<"a", "r", "r", "a", "y">> -> data.k = "seq"
            [] schema.s = TypeObject -> data.k = "obj"
            [] schema.s = <<"s", "t", "r", "i", "n", "g">> -> data.k = "str"
            [] schema.s = <<"n", "u", "m", "b", "e", "r">> ->
                 data.k \in {"num", "nan", "inf", "ninf"}
            [] schema.s = <<"b", "o", "o", "l", "e", "a", "n">> -> data.k = "bool"
            [] OTHER -> FALSE)
    [] schema.k = "seq" ->
         /\ data.k = "seq"
         /\ \A i \in 1..Len(data.items) : Conforms(schema.items[1], data.items[i])
    [] schema.k = "obj" ->
         /\ data.k = "obj"
         /\ \A i \in 1..Len(schema.ents) :
              Conforms(schema.ents[i].val, Get(data, schema.ents[i].key))
    [] OTHER -> FALSE

\* C7: validate(schema, data) never raises, and returns true exactly when
\* data conforms to schema
C7_Validate ==
  (pc = "done" /\ call.op = "validate")
    => /\ outcome.err = ""
       /\ outcome.val = Bool(Conforms(call.schema, call.data))

---------------------------------------------------------------------------
(* Claims about block termination and string encoding *)

\* a value written on its entry's line, without a block of its own
Plain(v) == v.k \in {"num", "bool", "nil"}

\* C11: when the block of a nested mapping is ended by a less indented
\* ':key => value' line of the enclosing mapping, the enclosing mapping's
\* parser resumes at that line: the line's entry ends up in the enclosing
\* mapping, and in no other mapping
C11_BlockResume ==
  (pc = "done" /\ call.op = "clone" /\ heap = NoHeap /\ call.value.k = "obj")
    => \A i \in 1..(Len(call.value.ents) - 1) :
         LET nested == call.value.ents[i].val
             next == call.value.ents[i + 1]
         IN (/\ nested.k = "obj"
             /\ nested.ents # <<>>
             /\ \A n \in 1..Len(nested.ents) : Plain(nested.ents[n].val)
             /\ Plain(next.val)
             /\ next.key \in {TextKeys(encoded.text)[j] :
                                j \in 1..Len(TextKeys(encoded.text))})
            => /\ outcome.err = ""
               /\ outcome.val.k = "obj"
               /\ \E j \in 1..Len(outcome.val.ents) :
                    /\ outcome.val.ents[j].key = next.key
                    /\ Equiv(outcome.val.ents[j].val, next.val)
               /\ \A j \in 1..Len(outcome.val.ents) :
                    outcome.val.ents[j].val.k = "obj"
                      => Len(outcome.val.ents[j].val.ents) <= Len(nested.ents)

\* the characters that have a two-character backslash escape
Escaped(c) == IF c \in EscapeKeys THEN ESCAPE_MAP(c) ELSE <<c>>

\* a text with every double quote, backslash, newline, carriage return, tab,
\* backspace and form feed replaced by its escape
EscapeAll(str) == Concat([i \in 1..Len(str) |-> Escaped(str[i])])

\* C12: serialize of a string yields the string between double quotes with
\* each of the seven special characters replaced by its two-character escape
\* and every other character unchanged, so no raw newline is in the token
C12_StringEncoding ==
  (pc = "serialized" /\ call.value.k = "str" /\ encoded.err = "")
    => /\ encoded.text = <<DQ>> \o EscapeAll(call.value.s) \o <<DQ>>
       /\ ~Includes(encoded.text, NL)

---------------------------------------------------------------------------
(* deserialize, one step at a time.  The cursor pos of src/riv.js:128 is   *)
(* outcome.pos, and the activations of parseArray and parseObject, with    *)
(* their local variables, are the stack.  pc is "value" at a call of       *)
(* parseValue, "turn" at the top of the loop of the innermost activation,  *)
(* and "return" when parseValue has returned outcome.val to its caller.    *)
(* A step is [outcome, stack, pc], what the step makes of the three.       *)

\* the parse in progress: the cursor, and the value parseValue returned
Parsing(pos, val) == [err |-> "", context |-> <<>>, val |-> val, pos |-> pos]

\* the local variables of an activation: start is the cursor at the call of
\* parseValue that made it, turn the cursor at the top of its current turn
Activation(fn, tag, start, name, baseIndent) ==
  [fn |-> fn, tag |-> tag, start |-> start, turn |-> start, result |-> <<>>,
   name |-> name, baseIndent |-> baseIndent, key |-> <<>>]

Top == stack[Len(stack)]

Callers == SubSeq(stack, 1, Len(stack) - 1)

\* src/riv.js:367 what is raised at pos ends every activation
Throws(str, pos, message) ==
  [outcome |-> Caught(str, pos, message), stack |-> <<>>, pc |-> "done"]

\* the innermost activation returns val to the parseValue that made it
Returns(pos, val) ==
  [outcome |-> Parsing(pos, val), stack |-> Callers, pc |-> "return"]

\* the innermost activation, its local variables now being frame, calls
\* parseValue at pos
Calls(pos, frame) ==
  [outcome |-> Parsing(pos, Nil), stack |-> Append(Callers, frame), pc |-> "value"]

\* the innermost activation, its local variables now being frame, goes to
\* the top of its loop
Turns(pos, frame) ==
  [outcome |-> Parsing(pos, Nil), stack |-> Append(Callers, frame), pc |-> "turn"]

\* the step is taken
Becomes(step) ==
  /\ outcome' = step.outcome
  /\ stack' = step.stack
  /\ pc' = step.pc

\* src/riv.js:125-129 deserialize(str) is called
Begin(str) ==
  /\ pc = "ready"
  /\ call' = [op |-> "deserialize", str |-> str]
  /\ IF str = <<>> \/ Len(str) > CONFIG.maxLength
       THEN outcome' = deserialize(str) /\ pc' = "done"
       ELSE outcome' = Parsing(0, Nil) /\ pc' = "value"
  /\ UNCHANGED <<CONFIG, heap, encoded, stack>>

\* src/riv.js:244-246 parseArray is entered at p, for the parseValue called
\* at start
EnterArray(str, tag, start, p) ==
  IF At(str, p) # "<" THEN Throws(str, p, "Expected <")
  ELSE [outcome |-> Parsing(p + 1, Nil),
        stack |-> Append(stack, Activation("array", tag, start, <<>>, 0)),
        pc |-> "turn"]

\* src/riv.js:259-278 parseObject is entered at the '@' at p: the name up to
\* nameEnd, the rest of the header line, and the indentation of the first
\* line, which starts at first
EnterObject(str, start, p, nameEnd, first) ==
  [outcome |-> Parsing(first, Nil),
   stack |-> Append(stack, Activation("object", "", start,
                                      Slice(str, p + 1, nameEnd),
                                      SkipSpaces(str, first) - first)),
   pc |-> "turn"]

\* src/riv.js:350-359 a token that is read whole, v being what parseValue
\* yields for it
ReadToken(str, v) ==
  IF v.err # "" THEN Throws(str, v.pos, v.err)
  ELSE [outcome |-> Parsing(v.pos, v.val), stack |-> stack, pc |-> "return"]

\* src/riv.js:344-359 a call of parseValue, p being the cursor after the
\* blanks
ParseValueAt(str, start, p) ==
  IF p >= Len(str) THEN Throws(str, p, "Unexpected end")
  ELSE IF StartsWith(str, <<"#", "s", "e", "t", ":">>, p)
    THEN EnterArray(str, "set", start, p + 5)
  ELSE IF StartsWith(str, <<"#", "m", "a", "p", ":">>, p)
    THEN EnterArray(str, "map", start, p + 5)
  ELSE IF str[p + 1] = "<" THEN EnterArray(str, "", start, p)
  ELSE IF str[p + 1] = "@"
    THEN EnterObject(str, start, p,
                     ScanWhile(str, p + 1, LAMBDA c : ~IsSpace(c)),
                     BlockStart(str, ScanWhile(str, p + 1, LAMBDA c : ~IsSpace(c))))
  ELSE ReadToken(str, parseValueAt(str, p))

ParseValue ==
  /\ pc = "value"
  /\ Becomes(ParseValueAt(call.str, outcome.pos, skip(call.str, outcome.pos)))
  /\ UNCHANGED <<CONFIG, heap, call, encoded>>

\* src/riv.js:255 and 218-233 the array, or the Set or Map made of it
ArrayValue(frame) ==
  IF frame.tag = "" THEN [k |-> "seq", items |-> frame.result]
  ELSE TaggedArray(frame.tag, Ret(0, [k |-> "seq", items |-> frame.result])).val

\* src/riv.js:248-252 one turn of the loop of parseArray, up to the call of
\* parseValue; p is the cursor after skip()
ArrayTurnAt(str, pos, p) ==
  IF pos >= Len(str) THEN Returns(pos, ArrayValue(Top))
  ELSE IF p >= Len(str) THEN Throws(str, p, "Unterminated array")
  ELSE IF str[p + 1] = ">" THEN Returns(p + 1, ArrayValue(Top))
  ELSE Calls(p, [Top EXCEPT !.turn = pos])

ArrayTurn ==
  /\ pc = "turn"
  /\ Top.fn = "array"
  /\ Becomes(ArrayTurnAt(call.str, outcome.pos, skip(call.str, outcome.pos)))
  /\ UNCHANGED <<CONFIG, heap, call, encoded>>

\* src/riv.js:253 the value parseValue returned is pushed
PushItemAt(pos, val) == Turns(pos, [Top EXCEPT !.result = Append(@, val)])

PushItem ==
  /\ pc = "return"
  /\ stack # <<>>
  /\ Top.fn = "array"
  /\ Becomes(PushItemAt(outcome.pos, outcome.val))
  /\ UNCHANGED <<CONFIG, heap, call, encoded>>

\* src/riv.js:340-341 the object, with its _name
ObjectValue(frame) ==
  Named(frame.name, Ret(0, [k |-> "obj", ents |-> frame.result])).val

\* the cursor stays where it is
StayAt(str, p) == p

\* src/riv.js:334-336 the cursor after a line that is no entry
UnknownLine(str, p) == SkipToNextLine(str, p)

\* src/riv.js:308-328 the entry line whose ':' is at p, up to the call of
\* parseValue; arrow is the cursor after the spaces that follow the key
EntryAt(str, lineStart, key, arrow) ==
  IF Slice(str, arrow, arrow + 2) # <<"=", ">">>
    THEN Throws(str, arrow, "Expected =>")
  ELSE Calls(IF At(str, SkipSpaces(str, arrow + 2)) = NL
               THEN SkipSpaces(str, SkipSpaces(str, arrow + 2) + 1)
               ELSE SkipSpaces(str, arrow + 2),
             [Top EXCEPT !.turn = lineStart, !.key = key])

\* src/riv.js:280-337 one turn of the loop of parseObject, up to the call
\* of parseValue; p is the cursor after the indentation of the line
ObjectTurnAt(str, lineStart, p, baseIndent) ==
  IF lineStart >= Len(str) THEN Returns(lineStart, ObjectValue(Top))
  ELSE IF At(str, p) = NL THEN Turns(p + 1, Top)
  ELSE IF p - lineStart < baseIndent /\ p < Len(str)
    THEN Returns(lineStart, ObjectValue(Top))
  ELSE IF p >= Len(str) \/ (p = lineStart /\ str[p + 1] \in {"@", ">", "<"})
    THEN Returns(p, ObjectValue(Top))
  ELSE IF str[p + 1] = ":"
    THEN EntryAt(str, lineStart,
                 Slice(str, p + 1,
                       ScanWhile(str, p + 1, LAMBDA c : ~IsSpace(c) /\ c # "=")),
                 SkipSpaces(str, ScanWhile(str, p + 1,
                                           LAMBDA c : ~IsSpace(c) /\ c # "=")))
  ELSE Turns(UnknownLine(str, p), Top)

ObjectTurn ==
  /\ pc = "turn"
  /\ Top.fn = "object"
  /\ Becomes(ObjectTurnAt(call.str, outcome.pos,
                          SkipSpaces(call.str, outcome.pos), Top.baseIndent))
  /\ UNCHANGED <<CONFIG, heap, call, encoded>>

\* src/riv.js:328-332 the value parseValue returned is stored under the key,
\* and the rest of the line is skipped
SetEntryAt(str, pos, val) ==
  Turns(SkipToNextLine(str, pos), [Top EXCEPT !.result = ObjSet(@, Top.key, val)])

SetEntry ==
  /\ pc = "return"
  /\ stack # <<>>
  /\ Top.fn = "object"
  /\ Becomes(SetEntryAt(call.str, outcome.pos, outcome.val))
  /\ UNCHANGED <<CONFIG, heap, call, encoded>>

\* src/riv.js:363-366 the outermost parseValue has returned
FinishAt(str, v) ==
  [outcome |-> Finished(str, v, skipLine(str, v.pos)), stack |-> <<>>, pc |-> "done"]

Finish ==
  /\ pc = "return"
  /\ stack = <<>>
  /\ Becomes(FinishAt(call.str, outcome))
  /\ UNCHANGED <<CONFIG, heap, call, encoded>>

MaxLines == 3

\* lines of a mapping block, and lines that are none
LineSamples ==
  { <<"@">>,
    <<" ", " ", ":", "a", " ", "=", ">", " ", "1">>,
    <<" ", " ", ":", "b", " ", "=", ">">>,
    <<" ", " ", " ", " ", "@", "n">>,
    <<" ", " ", " ", " ", " ", " ", ":", "c", " ", "=", ">", " ", "<", "1", " ",
      "#", "n", "o", ">">>,
    <<>> }

BlockTexts == {Join(ls, <<NL>>) : ls \in SeqsUpTo(LineSamples, MaxLines)}

\* a mapping in a mapping, followed by an entry of the outer mapping, by a
\* line with less or no indentation, or by an entry of the inner mapping
BlockSamples ==
  { Join(<< <<"@">>,
            <<" ", " ", ":", "b", " ", "=", ">">>,
            <<" ", " ", " ", " ", "@", "n">>,
            <<" ", " ", " ", " ", " ", " ", ":", "c", " ", "=", ">", " ", "1">>,
            last >>, <<NL>>) :
      last \in { <<" ", " ", ":", "a", " ", "=", ">", " ", "2">>,
                 <<"<", "1", ">">>,
                 <<" ", "x">>,
                 <<" ", " ", ":", "d", " ", "=", " ", "1">>,
                 <<" ", " ", " ", " ", " ", " ", ":", "d", " ", "=", ">", " ",
                   DQ, "s", DQ>> } }

CursorTexts ==
  SeqsUpTo(TextAlphabet, MaxTextLen - 1) \cup SampleTexts \cup BlockTexts
    \cup BlockSamples

\* no call is being made
NoCall == [op |-> "", str |-> <<>>]

\* the caller is about to deserialize a text, which is followed step by step
InitCursor ==
  /\ CONFIG \in Configs({100}, {MaxTextLen - 1, 1000000}, {"iso"})
  /\ heap = NoHeap
  /\ call = NoCall
  /\ pc = "ready"
  /\ encoded = NoText
  /\ outcome = NoResult
  /\ stack = <<>>

NextCursor ==
  \/ \E str \in CursorTexts : Begin(str)
  \/ ParseValue
  \/ ArrayTurn
  \/ PushItem
  \/ ObjectTurn
  \/ SetEntry
  \/ Finish

SpecCursor == InitCursor /\ [][NextCursor]_vars

---------------------------------------------------------------------------
(* The claim about the decoder's cursor *)

\* the cursor is within the text
CursorInBounds == 0 <= outcome.pos /\ outcome.pos <= Len(call.str)

\* the step by step parse ends as deserialize does
CursorAgrees == pc = "done" => outcome = deserialize(call.str)

\* where the parse is
Here == [outcome |-> outcome, stack |-> stack, pc |-> pc]

\* until the call has returned or raised there is a step to take, and it
\* does not leave the parse where it is
CursorMoves ==
  /\ pc \in {"ready", "value", "turn", "return", "done"}
  /\ pc = "value"
       => ParseValueAt(call.str, outcome.pos, skip(call.str, outcome.pos)) # Here
  /\ pc = "turn" => stack # <<>> /\ Top.fn \in {"array", "object"}
  /\ (pc = "turn" /\ Top.fn = "array")
       => ArrayTurnAt(call.str, outcome.pos, skip(call.str, outcome.pos)) # Here
  /\ (pc = "turn" /\ Top.fn = "object")
       => ObjectTurnAt(call.str, outcome.pos, SkipSpaces(call.str, outcome.pos),
                       Top.baseIndent) # Here
  /\ (pc = "return" /\ stack # <<>>) => Top.fn \in {"array", "object"}

\* the order in which a step goes on where it leaves the cursor and the
\* activations as they are: a return, then a turn, then a call, then the end
Rank(at) ==
  CASE at = "return" -> 3 [] at = "turn" -> 2 [] at = "value" -> 1 [] OTHER -> 0

\* the steps of a call cannot go on for ever: each moves the cursor forward,
\* or leaves it and ends an activation, or leaves both and goes down in rank
CursorDescends ==
  pc # "ready"
    => \/ outcome'.pos > outcome.pos
       \/ outcome'.pos = outcome.pos /\ Len(stack') < Len(stack)
       \/ /\ outcome'.pos = outcome.pos
          /\ Len(stack') = Len(stack)
          /\ Rank(pc') < Rank(pc)

\* what a step does to the cursor: a parseValue that returns has advanced it
\* from where it was called; a turn of a loop that goes on to the next turn,
\* at once or after the value it asked for, has advanced it from where the
\* turn began; and no step leaves it before where it was
CursorAdvances ==
  /\ (pc = "value" /\ pc' = "return") => outcome'.pos > outcome.pos
  /\ (pc = "turn" /\ pc' = "return") => outcome'.pos > Top.start
  /\ (pc = "turn" /\ pc' = "turn") => outcome'.pos > outcome.pos
  /\ (pc = "return" /\ pc' = "turn") => outcome'.pos > Top.turn
  /\ outcome'.pos >= outcome.pos

\* C13: deserialize of a text terminates, returning a value or raising (as
\* long as it has done neither there is a step that changes the state, and
\* the steps descend in a well-founded order); the cursor stays within
\* 0..len; every parseValue that returns has advanced the cursor by at least
\* one character; every turn of the loop of parseArray and of parseObject
\* advances the cursor or leaves the loop, and the cursor is never left
\* before the start of the line a turn began at
C13_CursorProgress ==
  /\ [](CursorInBounds /\ CursorAgrees /\ CursorMoves)
  /\ [][CursorAdvances /\ CursorDescends]_vars

\* C13: the block of a nested mapping that has an entry has ended at the
\* start of a later line of the text, to which the cursor was rewound, and
\* has returned to the turn of the enclosing mapping's loop
C13_Witness ==
  /\ pc = "return"
  /\ stack # <<>>
  /\ Top.fn = "object"
  /\ outcome.val.k = "obj"
  /\ outcome.val.ents # <<>>
  /\ outcome.pos < Len(call.str)
  /\ call.str[outcome.pos] = NL
  /\ Top.turn < outcome.pos

=============================================================================
